---- MODULE Spec2Model ----
(***************************************************************************)
(* BatchRunner (src/batchrunner.py): a registry of named shell commands    *)
(* with dependencies, validated, levelled into execution groups and run    *)
(* group after group, one thread per command inside a group.               *)
(*                                                                         *)
(* Command names are opaque strings in the code: the k-th distinct name    *)
(* registered is called k here.  A depends_on entry is any of the names    *)
(* 1..MaxCmds, registered or not by the time run() is called.  A command's *)
(* command line is identified with its name.                               *)
(***************************************************************************)
EXTENDS Integers, Sequences, FiniteSets, TLC

\* ----------------------------------------------------------------- bounds
MaxCmds == 3
MaxDeps == 2
MaxRetry == 1

Names == 1..MaxCmds

Range(s) == {s[i] : i \in 1..Len(s)}

\* The lists over S of at most n entries, none repeated.
RECURSIVE ListsUpTo(_, _)
ListsUpTo(S, n) ==
  IF n = 0 THEN {<<>>}
  ELSE LET shorter == ListsUpTo(S, n - 1)
       IN  shorter \cup {Append(s, x) : s \in shorter, x \in S}

DepLists == {s \in ListsUpTo(Names, MaxDeps) : Cardinality(Range(s)) = Len(s)}
RetryCounts == 0..MaxRetry
FailureStrategies == {"abort"}

\* ------------------------------------------------------------- data model
\* CommandResult.error is modelled by whether it is None or a message (the
\* timeout or the exception text).
ErrorNone == "None"
ErrorSet == "message"

\* Time is counted in units: every process takes AttemptTime from its start
\* to its exit, its timeout or its spawn error, and a retry delay takes
\* retry_delay, the default of Command.retry_delay.
AttemptTime == 1
retry_delay == 1

NoResult == [command |-> 0, success |-> FALSE, exit_code |-> -1,
             duration |-> 0, stdout |-> "", error |-> "unset"]

Command(name, depends_on, retry_count, failure_strategy) ==
  [name |-> name, depends_on |-> depends_on, retry_count |-> retry_count,
   failure_strategy |-> failure_strategy]

CommandResult(command, success, exit_code, duration, stdout, error) ==
  [command |-> command, success |-> success, exit_code |-> exit_code,
   duration |-> duration, stdout |-> stdout, error |-> error]

\* The keys of the commands dict, in insertion order, and the lookup.
Keys(cmds) == {cmds[i].name : i \in 1..Len(cmds)}
Lookup(cmds, name) == cmds[CHOOSE i \in 1..Len(cmds) : cmds[i].name = name]

\* ------------------------------------------------ validate_dependencies
\* Mutant of MissingOfDeps: only a command's first missing entry is reported.
MissingOfDepsFirst(cmds, name, deps, i) ==
  LET bad == {k \in i..Len(deps) : deps[k] \notin Keys(cmds)}
  IN  IF bad = {} THEN <<>>
      ELSE <<[kind |-> "missing", cmd |-> name,
              dep |-> deps[CHOOSE k \in bad : \A l \in bad : k <= l]]>>

RECURSIVE MissingOfDeps(_, _, _, _)
MissingOfDeps(cmds, name, deps, i) ==
  IF i > Len(deps) THEN <<>>
  ELSE (IF deps[i] \notin Keys(cmds)
        THEN <<[kind |-> "missing", cmd |-> name, dep |-> deps[i]]>>
        ELSE <<>>) \o MissingOfDeps(cmds, name, deps, i + 1)

RECURSIVE MissingErrors(_, _)
MissingErrors(cmds, k) ==
  IF k > Len(cmds) THEN <<>>
  ELSE MissingOfDeps(cmds, cmds[k].name, cmds[k].depends_on, 1)
         \o MissingErrors(cmds, k + 1)

\* has_cycle(name, visited, stack): st carries visited, stack and errors,
\* the three objects the closure mutates; ret is its return value.
RECURSIVE has_cycle(_, _, _)
RECURSIVE has_cycle_deps(_, _, _, _, _)

\* Mutant of has_cycle_deps: any dependency visited before counts as a cycle.
has_cycle_deps_visited(cmds, name, deps, i, st) ==
  IF i > Len(deps)
  THEN [ret |-> FALSE, visited |-> st.visited,
        stack |-> st.stack \ {name}, errors |-> st.errors]
  ELSE LET dep == deps[i] IN
       IF dep \notin st.visited
       THEN LET r == has_cycle(cmds, dep, st) IN
            IF r.ret THEN r
            ELSE has_cycle_deps(cmds, name, deps, i + 1, r)
       ELSE [ret |-> TRUE, visited |-> st.visited, stack |-> st.stack,
             errors |-> Append(st.errors,
                          [kind |-> "cycle", cmd |-> name, dep |-> dep])]

has_cycle_deps(cmds, name, deps, i, st) ==
  IF i > Len(deps)
  THEN [ret |-> FALSE, visited |-> st.visited,
        stack |-> st.stack \ {name}, errors |-> st.errors]
  ELSE LET dep == deps[i] IN
       IF dep \notin st.visited
       THEN LET r == has_cycle(cmds, dep, st) IN
            IF r.ret THEN r
            ELSE has_cycle_deps(cmds, name, deps, i + 1, r)
       ELSE IF dep \in st.stack
       THEN [ret |-> TRUE, visited |-> st.visited, stack |-> st.stack,
             errors |-> Append(st.errors,
                          [kind |-> "cycle", cmd |-> name, dep |-> dep])]
       ELSE has_cycle_deps(cmds, name, deps, i + 1, st)

has_cycle(cmds, name, st) ==
  LET entered == [ret |-> FALSE, visited |-> st.visited \cup {name},
                  stack |-> st.stack \cup {name}, errors |-> st.errors]
  IN  IF name \in Keys(cmds)
      THEN has_cycle_deps(cmds, name, Lookup(cmds, name).depends_on, 1, entered)
      ELSE [entered EXCEPT !.stack = entered.stack \ {name}]

RECURSIVE CycleScan(_, _, _)

\* Mutant of CycleScan: the top-level calls share one stack.
CycleScanSharedStack(cmds, k, st) ==
  IF k > Len(cmds) THEN st
  ELSE IF cmds[k].name \in st.visited THEN CycleScan(cmds, k + 1, st)
  ELSE LET r == has_cycle(cmds, cmds[k].name,
                          [ret |-> FALSE, visited |-> st.visited,
                           stack |-> st.stack, errors |-> st.errors])
       IN  CycleScan(cmds, k + 1, r)

\* Mutant of CycleScan: the loop ends at the first top-level call that
\* returns True.
CycleScanStopping(cmds, k, st) ==
  IF k > Len(cmds) THEN st
  ELSE IF cmds[k].name \in st.visited THEN CycleScan(cmds, k + 1, st)
  ELSE LET r == has_cycle(cmds, cmds[k].name,
                          [ret |-> FALSE, visited |-> st.visited,
                           stack |-> {}, errors |-> st.errors])
       IN  IF r.ret THEN r ELSE CycleScan(cmds, k + 1, r)

CycleScan(cmds, k, st) ==
  IF k > Len(cmds) THEN st
  ELSE IF cmds[k].name \in st.visited THEN CycleScan(cmds, k + 1, st)
  ELSE LET r == has_cycle(cmds, cmds[k].name,
                          [ret |-> FALSE, visited |-> st.visited,
                           stack |-> {}, errors |-> st.errors])
       IN  CycleScan(cmds, k + 1, r)

validate_dependencies(cmds) ==
  LET errors == CycleScan(cmds, 1,
                  [ret |-> FALSE, visited |-> {}, stack |-> {},
                   errors |-> MissingErrors(cmds, 1)]).errors
  IN  [is_valid |-> Len(errors) = 0, errors |-> errors]

\* ------------------------------------------------- _get_execution_order
\* levels is the dict of get_level, as the sequence of its (name, level)
\* items in insertion order.
LevelKeys(levels) == {levels[i][1] : i \in 1..Len(levels)}
\* Mutant of LevelOf: a memoised level is read back as 0.
LevelOfZero(levels, name) == 0

LevelOf(levels, name) ==
  levels[CHOOSE i \in 1..Len(levels) : levels[i][1] = name][2]

Max2(a, b) == IF a >= b THEN a ELSE b

RECURSIVE get_level(_, _, _)
RECURSIVE max_dep_level(_, _, _, _, _)

\* Mutant of max_dep_level: the level of the last dependency, not the maximum.
max_dep_level_last(cmds, deps, i, best, levels) ==
  IF i > Len(deps) THEN [level |-> best, levels |-> levels]
  ELSE LET r == get_level(cmds, deps[i], levels)
       IN  max_dep_level(cmds, deps, i + 1, r.level, r.levels)

max_dep_level(cmds, deps, i, best, levels) ==
  IF i > Len(deps) THEN [level |-> best, levels |-> levels]
  ELSE LET r == get_level(cmds, deps[i], levels)
       IN  max_dep_level(cmds, deps, i + 1, Max2(best, r.level), r.levels)

\* Mutant of get_level: a dependent gets the level of its dependencies.
get_level_same(cmds, name, levels) ==
  IF name \in LevelKeys(levels)
  THEN [level |-> LevelOf(levels, name), levels |-> levels]
  ELSE LET cmd == Lookup(cmds, name) IN
       IF Len(cmd.depends_on) = 0
       THEN [level |-> 0, levels |-> Append(levels, <<name, 0>>)]
       ELSE LET m == max_dep_level(cmds, cmd.depends_on, 1, -1, levels)
            IN  [level |-> m.level,
                 levels |-> Append(m.levels, <<name, m.level>>)]

get_level(cmds, name, levels) ==
  IF name \in LevelKeys(levels)
  THEN [level |-> LevelOf(levels, name), levels |-> levels]
  ELSE LET cmd == Lookup(cmds, name) IN
       IF Len(cmd.depends_on) = 0
       THEN [level |-> 0, levels |-> Append(levels, <<name, 0>>)]
       ELSE LET m == max_dep_level(cmds, cmd.depends_on, 1, -1, levels)
            IN  [level |-> m.level + 1,
                 levels |-> Append(m.levels, <<name, m.level + 1>>)]

RECURSIVE AllLevels(_, _, _)
AllLevels(cmds, k, levels) ==
  IF k > Len(cmds) THEN levels
  ELSE AllLevels(cmds, k + 1, get_level(cmds, cmds[k].name, levels).levels)

\* Mutant of MaxLevel: the plan is cut down to its first group.
MaxLevelZero(levels, k) == 0

RECURSIVE MaxLevel(_, _)
MaxLevel(levels, k) ==
  IF k > Len(levels) THEN 0
  ELSE Max2(levels[k][2], MaxLevel(levels, k + 1))

RECURSIVE GroupAt(_, _, _)
GroupAt(levels, level, k) ==
  IF k > Len(levels) THEN <<>>
  ELSE (IF levels[k][2] = level THEN <<levels[k][1]>> ELSE <<>>)
         \o GroupAt(levels, level, k + 1)

get_execution_order(cmds) ==
  LET levels == AllLevels(cmds, 1, <<>>)
      max_level == MaxLevel(levels, 1)
  IN  [g \in 1..(max_level + 1) |-> GroupAt(levels, g - 1, 1)]

\* ------------------------------------------------------------------ state
VARIABLES
  commands,          \* self.commands: the Command records, in insertion order
  cmd_result,        \* Command.result of each name (NoResult: None)
  dry_run,           \* self.dry_run
  raised,            \* the last add_command call raised ValueError
  pc,                \* where run() is: idle, spawn, join, done
  abort_on_failure,  \* the argument of run(), once the graph has been validated
  is_valid,          \* run(): what validate_dependencies returned
  errors,            \* run(): the error list validate_dependencies returned
  execution_groups,  \* run(): the plan of _get_execution_order
  gi,                \* run(): index of the group being executed (1-based)
  all_results,       \* run(): the accumulated results
  results,           \* _execute_group: the group's result list
  failed,            \* _execute_group: the threading.Event
  threads,           \* _execute_group: how many threads have been started
  tstate,            \* each command's thread: none, start, run, done, skip
  attempts,          \* _execute_command: attempts made for each command
  sleeps,            \* _execute_command: retry delays slept for each command
  result,            \* run_command: the result _execute_command returned
  summary,           \* what run() returned
  self_results,      \* self.results
  last_code,         \* history: <<status>> of each command's latest process, NoCode if it did not exit
  nonzero_exits      \* history: how many processes of each command exited non-zero

vars == <<commands, cmd_result, dry_run, raised, pc, abort_on_failure,
          is_valid, errors, execution_groups, gi, all_results, results,
          failed, threads, tstate, attempts, sleeps, result, summary,
          self_results, last_code, nonzero_exits>>

runvars == <<abort_on_failure, is_valid, errors, execution_groups, gi,
             all_results, summary, self_results>>
groupvars == <<results, failed, threads>>
threadvars == <<tstate, attempts, sleeps, result, last_code, nonzero_exits>>

NoSummary == [returned |-> FALSE]
NoCode == <<>>

\* BatchRunner.__init__
Init ==
  /\ commands = <<>>
  /\ cmd_result = [n \in Names |-> NoResult]
  /\ dry_run \in BOOLEAN
  /\ raised = FALSE
  /\ pc = "idle"
  /\ abort_on_failure = TRUE
  /\ is_valid = TRUE
  /\ errors = <<>>
  /\ execution_groups = <<>>
  /\ gi = 0
  /\ all_results = <<>>
  /\ results = <<>>
  /\ failed = FALSE
  /\ threads = 0
  /\ tstate = [n \in Names |-> "none"]
  /\ attempts = [n \in Names |-> 0]
  /\ sleeps = [n \in Names |-> 0]
  /\ result = [n \in Names |-> NoResult]
  /\ summary = NoSummary
  /\ self_results = <<>>
  /\ last_code = [n \in Names |-> NoCode]
  /\ nonzero_exits = [n \in Names |-> 0]

\* ------------------------------------------------------------ add_command
\* Mutant of add_command: a registered name gets the new command, as a plain
\* dict assignment would do.
add_command_overwriting(name) ==
  /\ pc = "idle"
  /\ Len(commands) < MaxCmds
  /\ raised' = FALSE
  /\ \E depends_on \in DepLists, retry_count \in RetryCounts,
        failure_strategy \in FailureStrategies :
       LET new == Command(name, depends_on, retry_count, failure_strategy)
       IN  commands' = IF name \in Keys(commands)
                       THEN [i \in 1..Len(commands) |->
                               IF commands[i].name = name THEN new
                               ELSE commands[i]]
                       ELSE Append(commands, new)
  /\ UNCHANGED <<cmd_result, dry_run, pc, runvars, groupvars, threadvars>>

\* The arguments other than the name are read only when the name is new.
add_command(name) ==
  /\ pc = "idle"
  /\ Len(commands) < MaxCmds
  /\ IF name \in Keys(commands)
     THEN /\ raised' = TRUE
          /\ UNCHANGED commands
     ELSE /\ raised' = FALSE
          /\ \E depends_on \in DepLists, retry_count \in RetryCounts,
                failure_strategy \in FailureStrategies :
               commands' = Append(commands,
                 Command(name, depends_on, retry_count, failure_strategy))
  /\ UNCHANGED <<cmd_result, dry_run, pc, runvars, groupvars, threadvars>>

\* ------------------------------------------------------------------ run()
Count(rs, ok) == Cardinality({i \in 1..Len(rs) : rs[i].success = ok})

\* Mutant of BuildSummary: every defined command is counted as executed.
BuildSummaryOfAll(cmds, rs) ==
  [returned |-> TRUE,
   success |-> (Len(rs) - Count(rs, TRUE)) = 0,
   error |-> "None",
   errors |-> <<>>,
   total_commands |-> Len(cmds),
   executed |-> Len(cmds),
   successful |-> Count(rs, TRUE),
   failed |-> Len(rs) - Count(rs, TRUE),
   results |-> rs]

\* Mutant of BuildSummary: success looks at the last result only.
BuildSummaryLastResult(cmds, rs) ==
  [returned |-> TRUE,
   success |-> (Len(rs) = 0 \/ rs[Len(rs)].success),
   error |-> "None",
   errors |-> <<>>,
   total_commands |-> Len(cmds),
   executed |-> Len(rs),
   successful |-> Count(rs, TRUE),
   failed |-> Len(rs) - Count(rs, TRUE),
   results |-> rs]

\* The summary dict of a run that executed its groups.
BuildSummary(cmds, rs) ==
  [returned |-> TRUE,
   success |-> (Len(rs) - Count(rs, TRUE)) = 0,
   error |-> "None",
   errors |-> <<>>,
   total_commands |-> Len(cmds),
   executed |-> Len(rs),
   successful |-> Count(rs, TRUE),
   failed |-> Len(rs) - Count(rs, TRUE),
   results |-> rs]

\* Mutant of ValidationFailed: the error list is left out.
ValidationFailedNoErrors(errs) ==
  [returned |-> TRUE,
   success |-> FALSE,
   error |-> "Validation failed",
   errors |-> <<>>,
   total_commands |-> -1,
   executed |-> -1,
   successful |-> -1,
   failed |-> -1,
   results |-> <<>>]

\* The dict run() returns when validation fails; it has no counts.
ValidationFailed(errs) ==
  [returned |-> TRUE,
   success |-> FALSE,
   error |-> "Validation failed",
   errors |-> errs,
   total_commands |-> -1,
   executed |-> -1,
   successful |-> -1,
   failed |-> -1,
   results |-> <<>>]

\* Mutant of run: validation leaves the registry in reverse order.
run_reversing(abort) ==
  /\ pc = "idle"
  /\ commands' = [i \in 1..Len(commands) |-> commands[Len(commands) + 1 - i]]
  /\ LET v == validate_dependencies(commands) IN
     /\ is_valid' = v.is_valid
     /\ errors' = v.errors
     /\ IF ~v.is_valid
        THEN /\ summary' = ValidationFailed(v.errors)
             /\ pc' = "done"
             /\ UNCHANGED <<abort_on_failure, execution_groups, gi, all_results>>
        ELSE /\ abort_on_failure' = abort
             /\ execution_groups' = get_execution_order(commands)
             /\ gi' = 1
             /\ all_results' = <<>>
             /\ pc' = IF Len(get_execution_order(commands)[1]) = 0
                      THEN "join" ELSE "spawn"
             /\ UNCHANGED summary
  /\ raised' = FALSE
  /\ results' = <<>>
  /\ failed' = FALSE
  /\ threads' = 0
  /\ UNCHANGED <<cmd_result, dry_run, self_results, threadvars>>

\* run() up to the first call of _execute_group: validation, the plan, and
\* the fresh result list and Event of the first group.
run(abort) ==
  /\ pc = "idle"
  /\ LET v == validate_dependencies(commands) IN
     /\ is_valid' = v.is_valid
     /\ errors' = v.errors
     /\ IF ~v.is_valid
        THEN /\ summary' = ValidationFailed(v.errors)
             /\ pc' = "done"
             /\ UNCHANGED <<abort_on_failure, execution_groups, gi, all_results>>
        ELSE /\ abort_on_failure' = abort
             /\ execution_groups' = get_execution_order(commands)
             /\ gi' = 1
             /\ all_results' = <<>>
             /\ pc' = IF Len(get_execution_order(commands)[1]) = 0
                      THEN "join" ELSE "spawn"
             /\ UNCHANGED summary
  /\ raised' = FALSE
  /\ results' = <<>>
  /\ failed' = FALSE
  /\ threads' = 0
  /\ UNCHANGED <<commands, cmd_result, dry_run, self_results, threadvars>>

group == execution_groups[gi]

\* _execute_group: one turn of the loop that creates and starts the threads.
StartThread ==
  /\ pc = "spawn"
  /\ threads < Len(group)
  /\ tstate' = [tstate EXCEPT ![group[threads + 1]] = "start"]
  /\ threads' = threads + 1
  /\ pc' = IF threads + 1 = Len(group) THEN "join" ELSE "spawn"
  /\ UNCHANGED <<commands, cmd_result, dry_run, raised, runvars, results,
                 failed, attempts, sleeps, result, last_code, nonzero_exits>>

\* Mutant of Skips: no thread ever skips its command.
SkipsNever(abort, event) == FALSE

\* Mutant of Skips: the Event alone decides, whatever abort_on_failure is.
SkipsOnEvent(abort, event) == event

\* run_command: the test that makes a thread return without executing.
Skips(abort, event) == abort /\ event

\* run_command: the check of the shared Event before anything else.
CheckFailed(n) ==
  /\ tstate[n] = "start"
  /\ tstate' = [tstate EXCEPT ![n] = IF Skips(abort_on_failure, failed)
                                     THEN "skip" ELSE "run"]
  /\ UNCHANGED <<commands, cmd_result, dry_run, raised, pc, runvars,
                 groupvars, attempts, sleeps, result, last_code, nonzero_exits>>

\* Mutant of Record: only a command whose failure_strategy is "abort" sets
\* the Event when it fails.
RecordByStrategy(n, r) ==
  /\ result' = [result EXCEPT ![n] = r]
  /\ results' = Append(results, r)
  /\ cmd_result' = [cmd_result EXCEPT ![n] = r]
  /\ failed' = (failed \/ (~r.success /\ Lookup(commands, n).failure_strategy = "abort"))
  /\ tstate' = [tstate EXCEPT ![n] = "done"]

\* Mutant of Record: the append overwrites the list, as an update lost
\* between two unsynchronised threads would.
RecordLosing(n, r) ==
  /\ result' = [result EXCEPT ![n] = r]
  /\ results' = <<r>>
  /\ cmd_result' = [cmd_result EXCEPT ![n] = r]
  /\ failed' = (failed \/ ~r.success)
  /\ tstate' = [tstate EXCEPT ![n] = "done"]

\* run_command once _execute_command has returned r: the block under
\* self.lock, which no other thread interleaves.  What precedes it in the
\* same step touches nothing another thread reads.
Record(n, r) ==
  /\ result' = [result EXCEPT ![n] = r]
  /\ results' = Append(results, r)
  /\ cmd_result' = [cmd_result EXCEPT ![n] = r]
  /\ failed' = (failed \/ ~r.success)
  /\ tstate' = [tstate EXCEPT ![n] = "done"]

\* Mutant of DryRun: the dry run counts as an attempt that exited 0.
DryRunAttempting(n) ==
  /\ tstate[n] = "run"
  /\ dry_run
  /\ attempts' = [attempts EXCEPT ![n] = attempts[n] + 1]
  /\ last_code' = [last_code EXCEPT ![n] = <<0>>]
  /\ Record(n, CommandResult(n, TRUE, 0, AttemptTime, "out", ErrorNone))
  /\ UNCHANGED <<commands, dry_run, raised, pc, runvars, threads,
                 sleeps, nonzero_exits>>

\* _execute_command in dry-run mode.
DryRun(n) ==
  /\ tstate[n] = "run"
  /\ dry_run
  /\ Record(n, CommandResult(n, TRUE, 0, 0, "[DRY RUN - not executed]", ErrorNone))
  /\ UNCHANGED <<commands, dry_run, raised, pc, runvars, threads,
                 attempts, sleeps, last_code, nonzero_exits>>

ExitCodes == {0, 1, 2}

max_attempts(n) == Lookup(commands, n).retry_count + 1

\* Mutant of ReturnsResult: one attempt too few is allowed.
ReturnsResultEarly(success, made, allowed) == success \/ made >= allowed - 1

\* Mutant of ReturnsResult: a successful attempt does not end the loop.
ReturnsResultLast(success, made, allowed) == made >= allowed

\* Mutant of ReturnsResult: only a successful attempt ends the loop.
ReturnsResultOnSuccess(success, made, allowed) == success

\* The test that ends the retry loop after a process has exited: the
\* attempt succeeded, or it was the last one allowed.
ReturnsResult(success, made, allowed) == success \/ made >= allowed

\* One turn of the retry loop whose process exits with status code: the
\* result is returned, or the retry delay is slept and the loop goes on.
AttemptExit(n, code) ==
  /\ tstate[n] = "run"
  /\ ~dry_run
  /\ attempts[n] < max_attempts(n)
  /\ attempts' = [attempts EXCEPT ![n] = attempts[n] + 1]
  /\ last_code' = [last_code EXCEPT ![n] = <<code>>]
  /\ nonzero_exits' = [nonzero_exits EXCEPT ![n] =
                         IF code # 0 THEN nonzero_exits[n] + 1 ELSE nonzero_exits[n]]
  /\ IF ReturnsResult(code = 0, attempts[n] + 1, max_attempts(n))
     THEN /\ Record(n, CommandResult(n, code = 0, code, AttemptTime, "out", ErrorNone))
          /\ UNCHANGED sleeps
     ELSE /\ sleeps' = [sleeps EXCEPT ![n] = sleeps[n] + 1]
          /\ UNCHANGED <<result, tstate, results, cmd_result, failed>>
  /\ UNCHANGED <<commands, dry_run, raised, pc, runvars, threads>>

\* One turn of the retry loop whose process runs into subprocess.TimeoutExpired.
AttemptTimeout(n) ==
  /\ tstate[n] = "run"
  /\ ~dry_run
  /\ attempts[n] < max_attempts(n)
  /\ attempts' = [attempts EXCEPT ![n] = attempts[n] + 1]
  /\ last_code' = [last_code EXCEPT ![n] = NoCode]
  /\ Record(n, CommandResult(n, FALSE, -1, AttemptTime, "", ErrorSet))
  /\ UNCHANGED <<commands, dry_run, raised, pc, runvars, threads,
                 sleeps, nonzero_exits>>

\* One turn of the retry loop whose process cannot be spawned (any other Exception).
AttemptException(n) ==
  /\ tstate[n] = "run"
  /\ ~dry_run
  /\ attempts[n] < max_attempts(n)
  /\ attempts' = [attempts EXCEPT ![n] = attempts[n] + 1]
  /\ last_code' = [last_code EXCEPT ![n] = NoCode]
  /\ Record(n, CommandResult(n, FALSE, -1, AttemptTime, "", ErrorSet))
  /\ UNCHANGED <<commands, dry_run, raised, pc, runvars, threads,
                 sleeps, nonzero_exits>>

\* Mutant of Joined: the group returns without waiting for its threads.
JoinedNoWait(started) == TRUE

\* _execute_group: every thread started has been joined.
Joined(started) == \A i \in 1..started : tstate[group[i]] \in {"done", "skip"}

\* Mutant of all_success: a group always reports success.
all_success_always(rs) == TRUE

\* Mutant of all_success: any() in place of all().
all_success_any(rs) == Len(rs) = 0 \/ \E i \in 1..Len(rs) : rs[i].success

\* _execute_group: all(r.success for r in results).
all_success(rs) == \A i \in 1..Len(rs) : rs[i].success

\* Mutant of Breaks: the loop over the groups never breaks.
BreaksNever(group_success, abort) == FALSE

\* run(): the test that breaks out of the loop over the groups.
Breaks(group_success, abort) == ~group_success /\ abort

\* Mutant of JoinGroup: a group's results are put in front of all_results.
JoinGroupPrepending ==
  /\ pc = "join"
  /\ Joined(threads)
  /\ all_results' = results \o all_results
  /\ IF Breaks(all_success(results), abort_on_failure) \/ gi = Len(execution_groups)
     THEN /\ summary' = BuildSummary(commands, results \o all_results)
          /\ self_results' = results \o all_results
          /\ pc' = "done"
          /\ UNCHANGED <<gi, groupvars>>
     ELSE /\ gi' = gi + 1
          /\ results' = <<>>
          /\ failed' = FALSE
          /\ threads' = 0
          /\ pc' = "spawn"
          /\ UNCHANGED <<summary, self_results>>
  /\ UNCHANGED <<commands, cmd_result, dry_run, raised, abort_on_failure,
                 is_valid, errors, execution_groups, threadvars>>

\* Mutant of JoinGroup: one Event serves all the groups of a run.
JoinGroupKeepingFlag ==
  /\ pc = "join"
  /\ Joined(threads)
  /\ all_results' = all_results \o results
  /\ IF Breaks(all_success(results), abort_on_failure) \/ gi = Len(execution_groups)
     THEN /\ summary' = BuildSummary(commands, all_results \o results)
          /\ self_results' = all_results \o results
          /\ pc' = "done"
          /\ UNCHANGED <<gi, groupvars>>
     ELSE /\ gi' = gi + 1
          /\ results' = <<>>
          /\ threads' = 0
          /\ pc' = "spawn"
          /\ UNCHANGED <<failed, summary, self_results>>
  /\ UNCHANGED <<commands, cmd_result, dry_run, raised, abort_on_failure,
                 is_valid, errors, execution_groups, threadvars>>

\* _execute_group: the joins and the return; then run() extends all_results
\* and either enters the next group or, on a break or after the last group,
\* builds the summary and returns.
JoinGroup ==
  /\ pc = "join"
  /\ Joined(threads)
  /\ all_results' = all_results \o results
  /\ IF Breaks(all_success(results), abort_on_failure) \/ gi = Len(execution_groups)
     THEN /\ summary' = BuildSummary(commands, all_results \o results)
          /\ self_results' = all_results \o results
          /\ pc' = "done"
          /\ UNCHANGED <<gi, groupvars>>
     ELSE /\ gi' = gi + 1
          /\ results' = <<>>
          /\ failed' = FALSE
          /\ threads' = 0
          /\ pc' = "spawn"
          /\ UNCHANGED <<summary, self_results>>
  /\ UNCHANGED <<commands, cmd_result, dry_run, raised, abort_on_failure,
                 is_valid, errors, execution_groups, threadvars>>

\* The names add_command is called with: the registered ones and one new name.
AddNames == 1..(Len(commands) + 1)

Next ==
  \/ \E name \in AddNames : add_command(name)
  \/ \E abort \in BOOLEAN : run(abort)
  \/ StartThread
  \/ \E n \in Names : CheckFailed(n)
  \/ \E n \in Names : DryRun(n)
  \/ \E n \in Names, code \in ExitCodes : AttemptExit(n, code)
  \/ \E n \in Names : AttemptTimeout(n)
  \/ \E n \in Names : AttemptException(n)
  \/ JoinGroup

Spec == Init /\ [][Next]_vars

\* ------------------------------------------------ runs that are scheduled
\* The steps of a run once run() has been called: those of the main thread
\* inside run() and _execute_group, and those of the command threads.
Progress ==
  \/ StartThread
  \/ \E n \in Names : CheckFailed(n)
  \/ \E n \in Names : DryRun(n)
  \/ \E n \in Names, code \in ExitCodes : AttemptExit(n, code)
  \/ \E n \in Names : AttemptTimeout(n)
  \/ \E n \in Names : AttemptException(n)
  \/ JoinGroup

\* Every process started by an attempt ends (exit, timeout or spawn error)
\* and the interpreter keeps scheduling a thread that can take a step: a run
\* in which some step stays possible takes one.
LiveSpec == Init /\ [][Next]_vars /\ WF_vars(Progress)

\* ------------------------------------------- runs with failure_strategy given
\* The values of Command.failure_strategy the documentation names for a batch.
AllFailureStrategies == {"abort", "continue"}

\* add_command called with the failure_strategy option; retry_count keeps
\* its default.
add_command_with(name) ==
  /\ pc = "idle"
  /\ Len(commands) < MaxCmds
  /\ IF name \in Keys(commands)
     THEN /\ raised' = TRUE
          /\ UNCHANGED commands
     ELSE /\ raised' = FALSE
          /\ \E depends_on \in DepLists, failure_strategy \in AllFailureStrategies :
               commands' = Append(commands,
                 Command(name, depends_on, 0, failure_strategy))
  /\ UNCHANGED <<cmd_result, dry_run, pc, runvars, groupvars, threadvars>>

NextFS ==
  \/ \E name \in AddNames : add_command_with(name)
  \/ \E abort \in BOOLEAN : run(abort)
  \/ StartThread
  \/ \E n \in Names : CheckFailed(n)
  \/ \E n \in Names : DryRun(n)
  \/ \E n \in Names, code \in ExitCodes : AttemptExit(n, code)
  \/ \E n \in Names : AttemptTimeout(n)
  \/ \E n \in Names : AttemptException(n)
  \/ JoinGroup

SpecFS == Init /\ [][NextFS]_vars

\* ------------------------------------------------ graph notions, independent
\* of validate_dependencies and _get_execution_order
DepsOf(cmds, name) ==
  IF name \in Keys(cmds) THEN Range(Lookup(cmds, name).depends_on) ELSE {}

NoDangling(cmds) == \A n \in Keys(cmds) : DepsOf(cmds, n) \subseteq Keys(cmds)

\* The names reached from the names of S along at least one and at most k
\* depends_on entries.
RECURSIVE ReachedWithin(_, _, _)
ReachedWithin(cmds, S, k) ==
  IF k = 0 THEN {}
  ELSE LET step == UNION {DepsOf(cmds, n) : n \in S}
       IN  step \cup ReachedWithin(cmds, step, k - 1)

Ancestors(cmds, name) == ReachedWithin(cmds, {name}, Len(cmds) + 1)

Acyclic(cmds) == \A n \in Keys(cmds) : n \notin Ancestors(cmds, n)

WellFormed(cmds) == NoDangling(cmds) /\ Acyclic(cmds)

\* Where a name stands in the plan run() holds.
InPlan(name) ==
  \E g \in 1..Len(execution_groups) : name \in Range(execution_groups[g])
GroupIdx(name) ==
  CHOOSE g \in 1..Len(execution_groups) : name \in Range(execution_groups[g])

Planned == pc # "idle" /\ is_valid
Entered(name) == tstate[name] \in {"run", "done"}
Holds(rs, name) == \E j \in 1..Len(rs) : rs[j].command = name

\* ----------------------------------------------------------------- claims

\* C1: a command makes its first attempt (enters _execute_command) only when
\* every command named in its depends_on is registered, has made its final
\* attempt, and has its result recorded on the Command and in the results
\* run() has accumulated.
C1_DependenciesFinishFirst ==
  \A i \in 1..Len(commands) :
    (attempts[commands[i].name] >= 1 \/ Entered(commands[i].name)) =>
      \A d \in Range(commands[i].depends_on) :
        /\ d \in Keys(commands)
        /\ tstate[d] = "done"
        /\ dry_run \/ attempts[d] >= 1
        /\ cmd_result[d] # NoResult
        /\ cmd_result[d] = result[d]
        /\ \E j \in 1..Len(all_results) : all_results[j] = cmd_result[d]

C1_Witness ==
  \E i \in 1..Len(commands) :
    /\ Len(commands[i].depends_on) = 2
    /\ attempts[commands[i].name] >= 1

\* C2: while group gi is being executed, no thread of a later group exists
\* and every thread of an earlier group has ended: a group's threads are all
\* joined before the first thread of the next group is created.
C2_LevelsSequential ==
  Planned =>
    \A g \in 1..Len(execution_groups) :
      \A n \in Range(execution_groups[g]) :
        /\ g > gi => tstate[n] = "none"
        /\ g < gi => tstate[n] \in {"done", "skip"}

C2_Witness ==
  /\ Planned
  /\ gi = 2
  /\ Len(execution_groups[1]) >= 2
  /\ \E n \in Range(execution_groups[2]) : tstate[n] = "run"

\* C3: for a graph with no dangling reference and no cycle, the plan holds
\* every command, in a group of strictly greater index than the group of
\* each of its dependencies.
C3_DependenciesInEarlierGroups ==
  (pc # "idle" /\ WellFormed(commands)) =>
    \A n \in Keys(commands) :
      /\ InPlan(n)
      /\ \A d \in DepsOf(commands, n) : InPlan(d) /\ GroupIdx(d) < GroupIdx(n)

C3_Witness ==
  /\ pc # "idle"
  /\ WellFormed(commands)
  /\ \E n \in Keys(commands) :
       \E d, e \in DepsOf(commands, n) : GroupIdx(d) + 1 < GroupIdx(n) /\ GroupIdx(e) + 1 = GroupIdx(n)

\* C4: validate_dependencies returns no error, and is_valid true, exactly
\* when every depends_on entry is a registered name and no command reaches
\* itself along depends_on entries; so it does for the empty registry.
C4_ValidIffWellFormed ==
  pc # "idle" =>
    /\ is_valid <=> (errors = <<>>)
    /\ is_valid <=> WellFormed(commands)
    /\ commands = <<>> => is_valid

C4_Witness ==
  /\ pc # "idle"
  /\ ~is_valid
  /\ NoDangling(commands)
  /\ Len(commands) = MaxCmds
  /\ \A n \in Keys(commands) : n \notin DepsOf(commands, n)

\* C5: when validation reports an error, run() has returned at once with
\* success false and the error list; no thread was created, no attempt made
\* and no result recorded.
C5_InvalidGraphRunsNothing ==
  (pc # "idle" /\ errors # <<>>) =>
    /\ pc = "done"
    /\ summary.returned
    /\ ~summary.success
    /\ summary.errors = errors
    /\ threads = 0
    /\ all_results = <<>> /\ results = <<>> /\ self_results = <<>>
    /\ summary.results = <<>>
    /\ \A n \in Names :
         /\ tstate[n] = "none"
         /\ attempts[n] = 0
         /\ cmd_result[n] = NoResult

C5_Witness ==
  /\ pc = "done"
  /\ Len(errors) >= 2
  /\ Len(commands) = MaxCmds

\* The results produced so far: those run() has accumulated and those of
\* the group still being executed.
ResultsSoFar == IF pc = "done" THEN all_results ELSE all_results \o results

\* Group g holds a command whose recorded result is unsuccessful.
FailedIn(g) ==
  \E n \in Range(execution_groups[g]) :
    cmd_result[n] # NoResult /\ ~cmd_result[n].success

FirstFailed(g) == FailedIn(g) /\ \A h \in 1..(g - 1) : ~FailedIn(h)

\* The number of commands in groups 1..g of the plan.
RECURSIVE SizeThrough(_)
SizeThrough(g) ==
  IF g = 0 THEN 0 ELSE Len(execution_groups[g]) + SizeThrough(g - 1)

\* C6: with abort_on_failure true, as soon as a group holds an unsuccessful
\* result, no command of a later group has a thread, an attempt or a result,
\* then or ever after, and none appears in the summary.
C6_AbortStopsLaterLevels ==
  (Planned /\ abort_on_failure) =>
    \A g \in 1..Len(execution_groups) :
      FailedIn(g) =>
        \A h \in (g + 1)..Len(execution_groups) :
          \A n \in Range(execution_groups[h]) :
            /\ tstate[n] = "none"
            /\ attempts[n] = 0
            /\ cmd_result[n] = NoResult
            /\ ~Holds(ResultsSoFar, n)
            /\ summary.returned => ~Holds(summary.results, n)

C6_Witness ==
  /\ pc = "done" /\ is_valid /\ abort_on_failure
  /\ Len(execution_groups) = 3
  /\ FailedIn(1)
  /\ summary.returned /\ summary.executed = 1

\* C7 as stated: with abort_on_failure true, when group k is the first to
\* hold a failure, executed equals the number of commands in groups 1..k.
C7_ExecutedCountsWholeLevels ==
  (pc = "done" /\ is_valid /\ abort_on_failure) =>
    \A k \in 1..Len(execution_groups) :
      FirstFailed(k) => summary.executed = SizeThrough(k)

\* C7 amended: with abort_on_failure true, when group k is the first to hold
\* a failure, executed equals the number of commands in groups 1..k-1 plus
\* the number of commands of group k that were not skipped; at least one
\* command of group k was not skipped, and a skipped one has no result.
C7_ExecutedCountsStartedCommands ==
  (pc = "done" /\ is_valid /\ abort_on_failure) =>
    \A k \in 1..Len(execution_groups) :
      FirstFailed(k) =>
        LET ran == {n \in Range(execution_groups[k]) : tstate[n] = "done"}
            skipped == {n \in Range(execution_groups[k]) : tstate[n] = "skip"}
        IN  /\ summary.executed = SizeThrough(k - 1) + Cardinality(ran)
            /\ Cardinality(ran) >= 1
            /\ ran \cup skipped = Range(execution_groups[k])
            /\ \A n \in skipped :
                 cmd_result[n] = NoResult /\ ~Holds(summary.results, n)

C7_Witness ==
  /\ pc = "done" /\ is_valid /\ abort_on_failure
  /\ Len(execution_groups) >= 2
  /\ FirstFailed(2)
  /\ \E n \in Range(execution_groups[2]) : tstate[n] = "skip"
  /\ summary.executed = 2

\* C8: with abort_on_failure false no thread ever skips its command, and
\* when run() has returned for a valid graph every registered command has
\* been executed and has one result in the summary, so executed equals
\* total_commands, failures or not.
C8_ContinueExecutesAll ==
  (Planned /\ ~abort_on_failure) =>
    /\ \A n \in Names : tstate[n] # "skip"
    /\ pc = "done" =>
         /\ summary.executed = summary.total_commands
         /\ summary.total_commands = Len(commands)
         /\ \A n \in Keys(commands) :
              /\ tstate[n] = "done"
              /\ cmd_result[n] # NoResult
              /\ Cardinality({j \in 1..Len(summary.results) :
                                summary.results[j].command = n}) = 1

C8_Witness ==
  /\ pc = "done" /\ is_valid /\ ~abort_on_failure
  /\ Len(execution_groups) >= 2
  /\ FailedIn(1)
  /\ Len(execution_groups[1]) = 2
  /\ summary.failed >= 2

\* C9: a command whose every attempt exited with a non-zero status and
\* whose result has been returned was attempted exactly retry_count + 1
\* times; it has exactly one result, unsuccessful, with the exit status of
\* the last attempt.
C9_AlwaysFailingAttempts ==
  \A i \in 1..Len(commands) :
    LET n == commands[i].name IN
    (tstate[n] = "done" /\ attempts[n] >= 1 /\ nonzero_exits[n] = attempts[n]) =>
      /\ attempts[n] = commands[i].retry_count + 1
      /\ sleeps[n] = commands[i].retry_count
      /\ ~cmd_result[n].success
      /\ <<cmd_result[n].exit_code>> = last_code[n]
      /\ cmd_result[n].exit_code # 0
      /\ Cardinality({j \in 1..Len(ResultsSoFar) :
                        ResultsSoFar[j].command = n}) = 1
      /\ \A j \in 1..Len(ResultsSoFar) :
           ResultsSoFar[j].command = n => ResultsSoFar[j] = cmd_result[n]

C9_Witness ==
  \E i \in 1..Len(commands) :
    /\ commands[i].retry_count = MaxRetry
    /\ tstate[commands[i].name] = "done"
    /\ nonzero_exits[commands[i].name] = MaxRetry + 1
    /\ cmd_result[commands[i].name].exit_code = 2

\* C10: the attempt that exits with status 0 returns the result without
\* sleeping a retry delay, and from then on the command makes no attempt
\* and sleeps no retry delay; a first attempt that exits 0 stays the only one.
C10_NoRetryAfterSuccess ==
  [][\A n \in Names :
       /\ last_code'[n] = <<0>> =>
            /\ sleeps'[n] = (IF attempts[n] = attempts'[n] THEN sleeps[n]
                             ELSE attempts'[n] - 1)
            /\ tstate'[n] = "done"
            /\ cmd_result'[n].success
       /\ last_code[n] = <<0>> =>
            /\ attempts'[n] = attempts[n]
            /\ sleeps'[n] = sleeps[n]
            /\ last_code'[n] = <<0>>]_vars

C10_Witness ==
  \E i \in 1..Len(commands) :
    /\ commands[i].retry_count >= 1
    /\ last_code[commands[i].name] = <<0>>
    /\ attempts[commands[i].name] = 1
    /\ sleeps[commands[i].name] = 0
    /\ pc = "done"

\* C11: a command whose returned result comes from an attempt that timed
\* out or could not be spawned (exit_code -1, error detail set) has made all
\* of its retry_count + 1 attempts and slept retry_count retry delays.
C11_FailedAttemptsAreRetried ==
  \A i \in 1..Len(commands) :
    LET n == commands[i].name IN
    (tstate[n] = "done" /\ attempts[n] >= 1 /\ cmd_result[n].error = ErrorSet) =>
      /\ cmd_result[n].exit_code = -1
      /\ ~cmd_result[n].success
      /\ attempts[n] = commands[i].retry_count + 1
      /\ sleeps[n] = commands[i].retry_count

\* C12: the summary run() returns for a valid graph has total_commands =
\* number of registered commands, executed = number of accumulated results,
\* successful and failed the numbers of successful and unsuccessful results,
\* successful + failed = executed <= total_commands, and success true
\* exactly when failed = 0: false as soon as one command's recorded result is
\* unsuccessful, with or without abort.
C12_SummaryCounts ==
  (pc = "done" /\ is_valid) =>
    /\ summary.returned
    /\ summary.total_commands = Len(commands)
    /\ summary.results = all_results /\ self_results = all_results
    /\ summary.executed = Len(all_results)
    /\ summary.successful =
         Cardinality({j \in 1..Len(all_results) : all_results[j].success})
    /\ summary.failed =
         Cardinality({j \in 1..Len(all_results) : ~all_results[j].success})
    /\ summary.successful + summary.failed = summary.executed
    /\ summary.executed <= summary.total_commands
    /\ summary.success <=> (summary.failed = 0)
    /\ (\E n \in Keys(commands) :
          cmd_result[n] # NoResult /\ ~cmd_result[n].success) => ~summary.success

C12_Witness ==
  /\ pc = "done" /\ is_valid
  /\ summary.failed >= 1
  /\ summary.successful >= 1
  /\ summary.executed < summary.total_commands

\* C13: in the results run() has accumulated, and in the list it returns, a
\* result of a command of one group never comes after a result of a command
\* of a later group, whatever the order in which the threads of a group
\* recorded their results.
C13_ResultsInLevelOrder ==
  Planned =>
    /\ \A i, j \in 1..Len(all_results) :
         (i < j) =>
           GroupIdx(all_results[i].command) <= GroupIdx(all_results[j].command)
    /\ summary.returned =>
         \A i, j \in 1..Len(summary.results) :
           GroupIdx(summary.results[i].command) < GroupIdx(summary.results[j].command)
             => i < j

C13_Witness ==
  /\ pc = "done" /\ is_valid
  /\ Len(summary.results) = 3
  /\ summary.results[1].command = 2
  /\ summary.results[2].command = 1
  /\ GroupIdx(1) = 1 /\ GroupIdx(2) = 1 /\ GroupIdx(3) = 2

\* The positions of the error list that report a missing dependency.
MissingReports == {j \in 1..Len(errors) : errors[j].kind = "missing"}

\* The (command index, depends_on position) pairs whose entry is not registered.
DanglingEntries ==
  {p \in (1..Len(commands)) \X (1..MaxDeps) :
     /\ p[2] <= Len(commands[p[1]].depends_on)
     /\ commands[p[1]].depends_on[p[2]] \notin Keys(commands)}

\* C14: validate_dependencies reports exactly one error for each depends_on
\* entry that is not a registered name, every such entry of every command,
\* and each of these errors names the depending command and the missing name.
C14_EveryDanglingEntryReported ==
  pc # "idle" =>
    /\ \A p \in DanglingEntries :
         Cardinality({j \in MissingReports :
                        /\ errors[j].cmd = commands[p[1]].name
                        /\ errors[j].dep = commands[p[1]].depends_on[p[2]]}) = 1
    /\ \A j \in MissingReports :
         /\ errors[j].cmd \in Keys(commands)
         /\ errors[j].dep \in DepsOf(commands, errors[j].cmd)
         /\ errors[j].dep \notin Keys(commands)
    /\ Cardinality(MissingReports) = Cardinality(DanglingEntries)

C14_Witness ==
  /\ pc # "idle"
  /\ \E p, q \in DanglingEntries : p[1] = q[1] /\ p[2] # q[2]
  /\ Cardinality(MissingReports) = 2

\* The positions of the error list that report a circular dependency.
CycleReports == {j \in 1..Len(errors) : errors[j].kind = "cycle"}

\* a and b depend on each other, and the graph has no cycle through any
\* other command or through a single command.
OnlyDirectCycle(a, b) ==
  /\ a # b
  /\ b \in DepsOf(commands, a) /\ a \in DepsOf(commands, b)
  /\ a \notin DepsOf(commands, a) /\ b \notin DepsOf(commands, b)
  /\ \A n \in Keys(commands) : n \in Ancestors(commands, n) => n \in {a, b}

\* C15: every circular-dependency error names a registered command and one
\* of its depends_on entries from which that command is reached again along
\* depends_on entries, so the two lie on one cycle; and when two commands
\* depend on each other and that is the graph's only cycle, an error names
\* both of them.
C15_CycleErrorsNameACycle ==
  pc # "idle" =>
    /\ \A j \in CycleReports :
         /\ errors[j].cmd \in Keys(commands)
         /\ errors[j].dep \in DepsOf(commands, errors[j].cmd)
         /\ errors[j].cmd \in Ancestors(commands, errors[j].dep)
    /\ \A a, b \in Keys(commands) :
         OnlyDirectCycle(a, b) =>
           \E j \in CycleReports : {errors[j].cmd, errors[j].dep} = {a, b}

C15_Witness ==
  /\ pc # "idle"
  /\ Len(commands) = 3
  /\ Len(commands[1].depends_on) = 2
  /\ OnlyDirectCycle(2, 3)
  /\ CycleReports # {}

\* The length of the longest chain of depends_on entries that starts at name
\* (for a graph without cycles), independent of get_level.
RECURSIVE Depth(_, _)
Depth(cmds, name) ==
  IF DepsOf(cmds, name) = {} THEN 0
  ELSE LET ds == {Depth(cmds, d) : d \in DepsOf(cmds, name)}
       IN  1 + (CHOOSE m \in ds : \A k \in ds : k <= m)

MaxDepth(cmds) ==
  LET ds == {Depth(cmds, n) : n \in Keys(cmds)}
  IN  CHOOSE m \in ds : \A k \in ds : k <= m

\* C16: the plan of a valid graph has max(level) + 1 groups when the graph
\* has commands, and no group at all when it has none.
C16_PlanLength ==
  (pc # "idle" /\ is_valid) =>
    IF commands = <<>>
    THEN Len(execution_groups) = 0
    ELSE Len(execution_groups) = MaxDepth(commands) + 1

\* order lists every registered command once, the first without a
\* dependency and each other one depending exactly on its predecessor.
IsChain(order) ==
  /\ Len(order) = Len(commands)
  /\ Range(order) = Keys(commands)
  /\ \A g \in 1..Len(order) :
       Lookup(commands, order[g]).depends_on =
         (IF g = 1 THEN <<>> ELSE <<order[g - 1]>>)

\* C17: when the registered commands form a linear chain, in whatever order
\* they were registered, validation passes and the plan has as many groups
\* as commands, the g-th group being the g-th command of the chain alone.
C17_ChainGivesSingletons ==
  (pc # "idle" /\ commands # <<>>) =>
    \A order \in [1..Len(commands) -> Keys(commands)] :
      IsChain(order) =>
        /\ is_valid
        /\ Len(execution_groups) = Len(commands)
        /\ \A g \in 1..Len(order) : execution_groups[g] = <<order[g]>>

C17_Witness ==
  /\ pc # "idle"
  /\ Len(commands) = 3
  /\ IsChain(<<2, 3, 1>>)
  /\ execution_groups = <<(<<2>>), (<<3>>), (<<1>>)>>

\* C18: every call of add_command either raises, and then the registry and
\* every command's recorded result are what they were, or it does not raise,
\* and then it appends one command whose name was not registered and leaves
\* the commands registered before as they were.  A registered name is never
\* registered again.
C18_DuplicateNameRejected ==
  [][(pc = "idle" /\ pc' = "idle") =>
       IF raised'
       THEN /\ commands' = commands
            /\ cmd_result' = cmd_result
       ELSE /\ Len(commands') = Len(commands) + 1
            /\ SubSeq(commands', 1, Len(commands)) = commands
            /\ commands'[Len(commands')].name \notin Keys(commands)]_vars

C18_Witness ==
  /\ pc = "idle"
  /\ raised
  /\ Len(commands) = 2
  /\ commands[2].depends_on = <<1>>
  /\ commands[1].retry_count = 1

\* C19: in dry-run mode no command ever makes an attempt or sleeps a retry
\* delay, every result recorded is successful with exit code 0 and the
\* not-executed mark, and when run() has returned for a valid graph every
\* registered command has exactly one result, executed = total_commands and
\* success is true, whatever the retry counts and abort_on_failure are.
C19_DryRunExecutesNothing ==
  dry_run =>
    /\ \A n \in Names :
         /\ attempts[n] = 0 /\ sleeps[n] = 0
         /\ last_code[n] = NoCode /\ nonzero_exits[n] = 0
         /\ cmd_result[n] # NoResult =>
              /\ cmd_result[n].success
              /\ cmd_result[n].exit_code = 0
              /\ cmd_result[n].stdout = "[DRY RUN - not executed]"
              /\ cmd_result[n].error = ErrorNone
    /\ (pc = "done" /\ is_valid) =>
         /\ \A n \in Keys(commands) :
              /\ cmd_result[n] # NoResult
              /\ Cardinality({j \in 1..Len(summary.results) :
                                summary.results[j] = cmd_result[n]}) = 1
         /\ summary.executed = summary.total_commands
         /\ summary.executed = Len(commands)
         /\ summary.success

C19_Witness ==
  /\ dry_run
  /\ pc = "done" /\ is_valid
  /\ Len(commands) = 3
  /\ Len(execution_groups) = 2
  /\ \E i \in 1..3 : commands[i].retry_count = 1
  /\ summary.executed = 3

Occurrences(g, name) ==
  Cardinality({k \in 1..Len(execution_groups[g]) : execution_groups[g][k] = name})

\* C21: in the plan of a valid graph every registered command occurs exactly
\* once, in the first group when it has no dependencies and otherwise in the
\* group that follows the last of the groups of its dependencies; commands
\* that all have no dependencies form one group holding them all.
C21_LevelIsOnePlusMaxOfDependencies ==
  (pc # "idle" /\ is_valid) =>
    /\ \A n \in Keys(commands) :
         /\ \E g \in 1..Len(execution_groups) :
              /\ Occurrences(g, n) = 1
              /\ \A h \in 1..Len(execution_groups) : h # g => Occurrences(h, n) = 0
         /\ IF DepsOf(commands, n) = {}
            THEN GroupIdx(n) = 1
            ELSE /\ \A d \in DepsOf(commands, n) : GroupIdx(d) + 1 <= GroupIdx(n)
                 /\ \E d \in DepsOf(commands, n) : GroupIdx(d) + 1 = GroupIdx(n)
    /\ \A g \in 1..Len(execution_groups) :
         Range(execution_groups[g]) \subseteq Keys(commands)
    /\ (commands # <<>> /\ \A n \in Keys(commands) : DepsOf(commands, n) = {}) =>
         /\ Len(execution_groups) = 1
         /\ Len(execution_groups[1]) = Len(commands)

C21_Witness ==
  /\ pc # "idle" /\ is_valid
  /\ Len(commands) = 3
  /\ commands[1].depends_on = <<2, 3>>
  /\ commands[2].depends_on = <<3>>
  /\ GroupIdx(1) = 3

\* C22: a thread that finds the failure Event set at its start, with
\* abort_on_failure true, skips: its command makes no attempt and has no
\* result anywhere.  A thread that found otherwise executes its command, and
\* from then on nothing a sibling does takes it out of execution: it stays
\* running until it records its result, the group does not return before,
\* and the result stays.
C22_SkipOnlyBeforeStart ==
  /\ [](\A n \in Names :
          tstate[n] = "skip" =>
            /\ abort_on_failure
            /\ attempts[n] = 0
            /\ cmd_result[n] = NoResult
            /\ ~Holds(ResultsSoFar, n)
            /\ summary.returned => ~Holds(summary.results, n))
  /\ [][\A n \in Names :
          /\ (tstate[n] = "start" /\ tstate'[n] # "start") =>
               tstate'[n] = (IF abort_on_failure /\ failed THEN "skip" ELSE "run")
          /\ tstate[n] = "run" =>
               /\ tstate'[n] \in {"run", "done"}
               /\ gi' = gi /\ pc' # "done"
               /\ tstate'[n] = "done" =>
                    /\ cmd_result'[n] # NoResult
                    /\ results' = Append(results, cmd_result'[n])
          /\ tstate[n] = "done" =>
               /\ tstate'[n] = "done"
               /\ cmd_result'[n] = cmd_result[n]
          /\ tstate[n] = "skip" => tstate'[n] = "skip"]_vars

C22_Witness ==
  /\ abort_on_failure
  /\ Len(results) = 2
  /\ ~results[1].success
  /\ \E n \in Range(group) : tstate[n] = "skip"
  /\ \E n \in Range(group) : tstate[n] = "done" /\ results[2] = cmd_result[n]

\* C23: at the step in which _execute_group returns, every thread of the
\* group has ended; the group's result list holds exactly one result for
\* each command of the group that was executed, equal to that command's
\* Command.result, none for a skipped command, and nothing else.
C23_GroupReturnsOneResultPerExecuted ==
  [][(pc = "join" /\ pc' # "join") =>
       /\ \A n \in Range(group) :
            /\ tstate[n] \in {"done", "skip"}
            /\ tstate[n] = "done" =>
                 /\ Cardinality({j \in 1..Len(results) :
                                   results[j].command = n}) = 1
                 /\ \A j \in 1..Len(results) :
                      results[j].command = n => results[j] = cmd_result[n]
            /\ tstate[n] = "skip" =>
                 /\ ~Holds(results, n)
                 /\ cmd_result[n] = NoResult
       /\ \A j \in 1..Len(results) : results[j].command \in Range(group)
       /\ Len(results) =
            Cardinality({n \in Range(group) : tstate[n] = "done"})
       /\ all_results' = all_results \o results]_vars

C23_Witness ==
  /\ Planned
  /\ gi = 2 /\ pc = "spawn" /\ threads = 0
  /\ Len(all_results) = 2
  /\ all_results[1].command = 2
  /\ all_results[2].command = 1
  /\ ~all_results[1].success

\* The registry with every failure_strategy replaced by the default.
Norm(cmds) ==
  [i \in 1..Len(cmds) |-> [cmds[i] EXCEPT !.failure_strategy = "abort"]]

\* C24: whatever failure_strategy values the commands carry, every decision
\* of a run is the one the strategy-free data dictate.  Validation and the
\* plan are those of the registry with the strategies erased; the Event is
\* set exactly when the group holds an unsuccessful result; a thread skips
\* exactly when abort_on_failure is true and the Event is set; the run stops
\* after a group exactly when abort_on_failure is true and the group holds an
\* unsuccessful result, or the group is the last; and the summary is computed
\* from the accumulated results and the number of commands alone.
C24_FailureStrategyHasNoEffect ==
  /\ [](pc # "idle" =>
          /\ validate_dependencies(Norm(commands)) =
               [is_valid |-> is_valid, errors |-> errors]
          /\ is_valid => get_execution_order(Norm(commands)) = execution_groups)
  /\ [](Planned =>
          (failed <=> \E j \in 1..Len(results) : ~results[j].success))
  /\ [][/\ \A n \in Names :
            (tstate[n] = "start" /\ tstate'[n] # "start") =>
              tstate'[n] = (IF abort_on_failure /\ failed THEN "skip" ELSE "run")
        /\ (pc = "join" /\ pc' # "join") =>
             /\ (pc' = "done") <=>
                  \/ abort_on_failure /\ \E j \in 1..Len(results) : ~results[j].success
                  \/ gi = Len(execution_groups)
             /\ pc' = "done" =>
                  /\ summary'.results = all_results \o results
                  /\ summary'.executed = Len(all_results \o results)
                  /\ summary'.total_commands = Len(commands)
                  /\ summary'.success =
                       (\A j \in 1..Len(summary'.results) : summary'.results[j].success)]_vars

C24_Witness ==
  /\ pc = "done" /\ is_valid
  /\ Len(execution_groups) >= 2
  /\ \E i \in 1..Len(commands) :
       /\ commands[i].failure_strategy = "continue"
       /\ cmd_result[commands[i].name] # NoResult
       /\ ~cmd_result[commands[i].name].success
       /\ GroupIdx(commands[i].name) = 1
  /\ \A i \in 1..Len(commands) :
       commands[i].failure_strategy = (IF abort_on_failure THEN "continue" ELSE "abort")
  /\ summary.executed = (IF abort_on_failure THEN 1 ELSE Len(commands))

\* C25: the duration in a command's result spans all of its attempts and
\* the retry delays slept between them, while the exit code is that of the
\* last attempt.
C25_DurationSpansAllAttempts ==
  \A i \in 1..Len(commands) :
    LET n == commands[i].name IN
    (tstate[n] = "done" /\ attempts[n] >= 1) =>
      /\ cmd_result[n].duration =
           attempts[n] * AttemptTime + sleeps[n] * retry_delay
      /\ last_code[n] # NoCode => <<cmd_result[n].exit_code>> = last_code[n]

\* The registered names joined to name by a depends_on entry, in either
\* direction.
Linked(cmds, name) ==
  (DepsOf(cmds, name) \cap Keys(cmds))
    \cup {m \in Keys(cmds) : name \in DepsOf(cmds, m)}

RECURSIVE Grow(_, _, _)
Grow(cmds, S, k) ==
  IF k = 0 THEN S
  ELSE Grow(cmds, S \cup UNION {Linked(cmds, n) : n \in S}, k - 1)

\* The connected component of a registered name.
Component(cmds, name) == Grow(cmds, {name}, Len(cmds))

OnCycle(cmds, name) == name \in Ancestors(cmds, name)

\* C26: once validate_dependencies has run, every connected component of the
\* registry that contains a cycle has a circular-dependency error naming two
\* commands of that component.
C26_EveryCyclicComponentReported ==
  pc # "idle" =>
    \A n \in Keys(commands) :
      OnCycle(commands, n) =>
        \E j \in CycleReports :
          /\ errors[j].cmd \in Component(commands, n)
          /\ errors[j].dep \in Component(commands, n)

\* Two components with a cycle each, both reported.
C26_Witness ==
  /\ pc # "idle"
  /\ \E a, b \in Keys(commands) :
       /\ OnCycle(commands, a) /\ OnCycle(commands, b)
       /\ b \notin Component(commands, a)
       /\ Cardinality(Component(commands, a)) >= 2
       /\ \E i, j \in CycleReports :
            /\ errors[i].cmd \in Component(commands, a)
            /\ errors[j].cmd \in Component(commands, b)

\* A command that was executed, not skipped, and whose result is successful.
ExecutedSuccessfully(name) ==
  /\ tstate[name] = "done"
  /\ cmd_result[name].success
  /\ Holds(all_results, name)

\* C27: with abort_on_failure set, every command of every level before the
\* one the run is in was executed, none skipped, with a successful result;
\* so every command that has begun executing has all its dependencies
\* executed successfully.
C27_AbortEntersLevelOnlyAfterSuccess ==
  (Planned /\ abort_on_failure) =>
    /\ \A g \in 1..(gi - 1) :
         \A n \in Range(execution_groups[g]) : ExecutedSuccessfully(n)
    /\ \A n \in Keys(commands) :
         Entered(n) =>
           \A d \in DepsOf(commands, n) : ExecutedSuccessfully(d)

\* A command with dependencies runs in a later level under abort_on_failure,
\* after a dependency that needed a retry to succeed.
C27_Witness ==
  /\ Planned /\ abort_on_failure /\ ~dry_run
  /\ \E n \in Keys(commands) :
       /\ Entered(n)
       /\ \E d \in DepsOf(commands, n) :
            attempts[d] = 2 /\ ExecutedSuccessfully(d)

SkippedIn(g) == {n \in Range(g) : tstate[n] = "skip"}

\* C28: in the group a run is in, the Event is set only when the group's own
\* result list holds a failed result of one of its commands; so a group in
\* which a command was skipped has all_success False, and a non-empty group
\* whose threads are all joined returns at least one result.
C28_GroupFlagIsItsOwn ==
  Planned =>
    /\ \A i \in 1..Len(results) : results[i].command \in Range(group)
    /\ failed => \E i \in 1..Len(results) : ~results[i].success
    /\ SkippedIn(group) # {} => failed /\ ~all_success(results)
    /\ (pc = "join" /\ Joined(threads) /\ Len(group) > 0) => Len(results) >= 1

\* A second group returns with one command failed and another skipped.
C28_Witness ==
  /\ Planned /\ gi >= 2
  /\ pc = "join" /\ Joined(threads)
  /\ SkippedIn(group) # {}
  /\ Len(results) = 1 /\ ~results[1].success

ResultsOf(rs, name) == {j \in 1..Len(rs) : rs[j].command = name}

\* C29: a summary of a run on a valid graph that reports success counts every
\* registered command as executed and successful, holds exactly one result,
\* a successful one, for each of them, and no command was skipped, whatever
\* abort_on_failure is.
C29_SuccessMeansAllExecutedOnce ==
  (Planned /\ summary.returned /\ summary.success) =>
    /\ summary.executed = summary.total_commands
    /\ summary.successful = summary.total_commands
    /\ summary.total_commands = Len(commands)
    /\ summary.failed = 0
    /\ \A n \in Keys(commands) :
         /\ Cardinality(ResultsOf(summary.results, n)) = 1
         /\ \A j \in ResultsOf(summary.results, n) : summary.results[j].success
         /\ tstate[n] = "done"
         /\ ~dry_run => attempts[n] >= 1

\* A successful run of three commands in at least two levels, one of which
\* succeeded on its retry.
C29_Witness ==
  /\ Planned /\ summary.returned /\ summary.success
  /\ ~dry_run
  /\ Len(commands) = MaxCmds
  /\ Len(execution_groups) >= 2
  /\ \E n \in Keys(commands) : attempts[n] = 2

Finished(name) == tstate[name] \in {"done", "skip"}

\* C30: when every attempt ends and threads keep being scheduled, a run on a
\* valid graph ends with a summary; no command makes more than
\* retry_count + 1 attempts, a thread that has finished stays finished, the
\* group index only moves to the next group, and only once the threads of
\* the current group are joined.
C30_RunTerminates ==
  /\ Planned ~> (pc = "done" /\ summary.returned)
  /\ [](\A i \in 1..Len(commands) :
          attempts[commands[i].name] <= commands[i].retry_count + 1)
  /\ [][Planned =>
          /\ \A n \in Names : Finished(n) => tstate'[n] = tstate[n]
          /\ gi' = gi \/ (gi' = gi + 1 /\ pc = "join" /\ Joined(threads))]_vars

\* A run of three levels that used every attempt of a command has returned.
C30_Witness ==
  /\ Planned /\ pc = "done" /\ summary.returned
  /\ ~dry_run
  /\ gi = MaxCmds
  /\ \E n \in Keys(commands) :
       attempts[n] = MaxRetry + 1 /\ ~cmd_result[n].success

====
